---- MODULE Spec2Model ----
(***************************************************************************)
(* Brady crime-gun ETL: the crime-location classifier (classify_location), *)
(* the store it reads and writes (database), and the jurisdiction          *)
(* priority chain of the dealer-database loader (process_crime_gun_db).    *)
(*                                                                         *)
(* Text is modelled by TLA+ strings; Python's None by the value None.      *)
(***************************************************************************)
EXTENDS Integers, Sequences, FiniteSets, TLC

\* Python's None (and pandas' NaN / SQL NULL) for a text field.
None == "<None>"

----------------------------------------------------------------------------
(* Text primitives: the parts of Python's str and re the code relies on.   *)

Ch(s, i) == SubSeq(s, i, i)

UpperLetters ==
    {"A","B","C","D","E","F","G","H","I","J","K","L","M",
     "N","O","P","Q","R","S","T","U","V","W","X","Y","Z"}
LowerLetters ==
    {"a","b","c","d","e","f","g","h","i","j","k","l","m",
     "n","o","p","q","r","s","t","u","v","w","x","y","z"}
Digits == {"0","1","2","3","4","5","6","7","8","9"}

UpperSeq == "ABCDEFGHIJKLMNOPQRSTUVWXYZ"
LowerSeq == "abcdefghijklmnopqrstuvwxyz"

\* Position of letter c in alphabet string a.
LetterIndex(a, c) == CHOOSE i \in 1..26 : Ch(a, i) = c

IsDigit(c) == c \in Digits
IsUpper(c) == c \in UpperLetters
IsLetter(c) == c \in UpperLetters \cup LowerLetters
\* re's \s on str
IsSpace(c) == c \in {" ", "\t", "\n", "\r", "\f"}
\* re's \w on str (ASCII part)
IsWord(c) == IsLetter(c) \/ IsDigit(c) \/ c = "_"

LowerCh(c) == IF c \in UpperLetters THEN Ch(LowerSeq, LetterIndex(UpperSeq, c)) ELSE c
UpperCh(c) == IF c \in LowerLetters THEN Ch(UpperSeq, LetterIndex(LowerSeq, c)) ELSE c

RECURSIVE lower(_)
lower(s) == IF s = "" THEN "" ELSE LowerCh(Head(s)) \o lower(Tail(s))

RECURSIVE upper(_)
upper(s) == IF s = "" THEN "" ELSE UpperCh(Head(s)) \o upper(Tail(s))

RECURSIVE lstrip(_)
lstrip(s) == IF s # "" /\ IsSpace(Head(s)) THEN lstrip(Tail(s)) ELSE s

RECURSIVE rstrip(_)
rstrip(s) ==
    IF s # "" /\ IsSpace(Ch(s, Len(s))) THEN rstrip(SubSeq(s, 1, Len(s) - 1)) ELSE s

strip(s) == rstrip(lstrip(s))

\* text[i:i+len(lit)] == lit
LitAt(text, i, lit) == i + Len(lit) - 1 <= Len(text) /\ SubSeq(text, i, i + Len(lit) - 1) = lit

\* Python's `sub in text`
Contains(text, sub) == \E i \in 1..(Len(text) - Len(sub) + 1) : LitAt(text, i, sub)

\* First index >= i of text that holds no whitespace (Len(text)+1 if none): \s*
RECURSIVE SkipSpaces(_, _)
SkipSpaces(text, i) ==
    IF i <= Len(text) /\ IsSpace(Ch(text, i)) THEN SkipSpaces(text, i + 1) ELSE i

\* re's \b between text[i-1] and text[i] (1-based i in 1..Len+1)
WordBoundary(text, i) ==
    LET before == i > 1 /\ IsWord(Ch(text, i - 1))
        after  == i <= Len(text) /\ IsWord(Ch(text, i))
    IN  before # after

\* The no-match result of a matcher whose match is a tuple.
NoMatch == <<>>

\* Python truthiness of an optional text: None and "" are falsy.
\* Values that are not str: <<the value, its str(), its truth value>>
NonStringValues ==
    << << "<int 12345>", "12345", TRUE >>,
       << "<int 0>", "0", FALSE >>,
       << "<float 2.5>", "2.5", TRUE >> >>

NonStrings == {NonStringValues[k][1] : k \in 1..Len(NonStringValues)}

\* isinstance(v, str)
IsStr(v) == v # None /\ v \notin NonStrings

\* str(v)
PyStr(v) ==
    IF v \in NonStrings
    THEN NonStringValues[CHOOSE k \in 1..Len(NonStringValues) : NonStringValues[k][1] = v][2]
    ELSE v

\* bool(v), as in `if not text`
Truthy(v) ==
    /\ v # None /\ v # ""
    /\ \A k \in 1..Len(NonStringValues) :
           NonStringValues[k][1] = v => NonStringValues[k][3]

----------------------------------------------------------------------------
(* court_lookup.py                                                         *)

\* COURT_LOOKUP.get(prefix)
COURT_LOOKUP(prefix) ==
    CASE prefix = "10" -> "Delaware Supreme Court"
      [] prefix = "19" -> "Delaware Family Court"
      [] prefix = "30" -> "Delaware Superior Court"
      [] prefix = "31" -> "Court of Common Pleas"
      [] OTHER -> None

\* re.match(r'^(\d{2})-', s): the prefix, or None
MatchCourtPrefix(s) ==
    IF Len(s) >= 3 /\ IsDigit(Ch(s, 1)) /\ IsDigit(Ch(s, 2)) /\ Ch(s, 3) = "-"
    THEN SubSeq(s, 1, 2)
    ELSE None

lookup_court(case_number) ==
    IF ~Truthy(case_number) \/ ~IsStr(case_number) THEN None
    ELSE LET s == strip(case_number) IN
         IF s = "" THEN None
         ELSE LET prefix == MatchCourtPrefix(s) IN
              IF prefix = None THEN None ELSE COURT_LOOKUP(prefix)

\* re.match(r'^(\d{2})-(\d{2})-(\d+)$', s): <<group(1), group(2), group(3)>>
\* or NoMatch
CaseNumberMatch(s) ==
    IF /\ Len(s) >= 7
       /\ IsDigit(Ch(s, 1)) /\ IsDigit(Ch(s, 2)) /\ Ch(s, 3) = "-"
       /\ IsDigit(Ch(s, 4)) /\ IsDigit(Ch(s, 5)) /\ Ch(s, 6) = "-"
       /\ \A i \in 7..Len(s) : IsDigit(Ch(s, i))
    THEN << SubSeq(s, 1, 2), SubSeq(s, 4, 5), SubSeq(s, 7, Len(s)) >>
    ELSE NoMatch

\* re.sub(r'\s+', '', s)
RECURSIVE RemoveWhitespace(_)
RemoveWhitespace(s) ==
    IF s = "" THEN ""
    ELSE IF IsSpace(Head(s)) THEN RemoveWhitespace(Tail(s))
    ELSE Head(s) \o RemoveWhitespace(Tail(s))

\* str.zfill(width) on a string of digits
RECURSIVE zfill(_, _)
zfill(s, width) == IF Len(s) >= width THEN s ELSE zfill("0" \o s, width)

\* The width normalize_case_number pads the sequence number to
SequenceWidth == 6

\* A variant that gives up when the stripped text does not match.
normalize_case_number_strict(case_number) ==
    IF ~Truthy(case_number) \/ ~IsStr(case_number) THEN None
    ELSE LET match == CaseNumberMatch(strip(case_number))
         IN  IF match = NoMatch THEN None
             ELSE match[1] \o "-" \o match[2] \o "-" \o zfill(match[3], SequenceWidth)

normalize_case_number(case_number) ==
    IF ~Truthy(case_number) \/ ~IsStr(case_number) THEN None
    ELSE LET stripped == strip(case_number)
             first    == CaseNumberMatch(stripped)
             match    == IF first # NoMatch THEN first
                         ELSE CaseNumberMatch(RemoveWhitespace(stripped))
         IN  IF stripped = "" THEN None
             ELSE IF match = NoMatch THEN None
             ELSE match[1] \o "-" \o match[2] \o "-" \o zfill(match[3], SequenceWidth)

----------------------------------------------------------------------------
(* classify_location.py: the Wilmington street -> ZIP gazetteer            *)

Streets19801 ==
    <<
       "market st", "king st", "walnut st", "french st", "shipley st",
       "orange st", "tatnall st", "west st", "adams st", "w. 2nd", "w. 3rd",
       "w. 4th", "w. 5th", "w. 6th", "w. 7th", "w. 8th", "w. 9th", "w 2nd",
       "w 3rd", "w 4th", "w 5th", "w 6th", "w 7th", "w 8th", "w 9th",
       "west 2nd", "west 3rd", "west 4th", "west 5th", "west 6th",
       "west 7th", "west 8th", "west 9th", "s. walnut", "s walnut",
       "south walnut", "s. market", "s market", "south market",
       "rodney square", "wilmington train", "amtrak"
    >>

Streets19802 ==
    <<
       "e. 2nd", "e. 3rd", "e. 4th", "e. 5th", "e. 6th", "e. 7th", "e. 8th",
       "e. 9th", "e. 10th", "e. 11th", "e. 12th", "e. 13th", "e. 14th",
       "e. 15th", "e. 16th", "e. 17th", "e. 18th", "e 2nd", "e 3rd", "e 4th",
       "e 5th", "e 6th", "e 7th", "e 8th", "e 9th", "e 10th", "e 11th",
       "e 12th", "e 13th", "east 2nd", "east 3rd", "east 4th", "east 5th",
       "east 6th", "east 7th", "east 8th", "east 9th", "east 10th",
       "east 11th", "east 12th", "east 13th", "east 14th", "east 15th",
       "east 16th", "n. pine", "n pine", "north pine", "pine st",
       "n. van buren", "n van buren", "van buren", "n. madison", "n madison",
       "madison st", "n. jackson", "n jackson", "jackson st", "n. monroe",
       "n monroe", "monroe st", "n. jefferson", "n jefferson",
       "n. washington", "n washington", "n. dupont", "n dupont",
       "north dupont", "north park", "northeast blvd", "governor printz",
       "edgemoor", "claymont", "riverside", "brandywine", "s. van buren",
       "s van buren", "south van buren", "sycamore"
    >>

Streets19805 ==
    <<
       "kirkwood hwy", "kirkwood highway", "prices corner", "greenbank",
       "elsmere"
    >>

Streets19806 ==
    <<
       "w. 18th", "w. 19th", "w. 20th", "w. 21st", "w. 22nd", "w. 23rd",
       "w. 24th", "w. 25th", "w. 26th", "w. 27th", "w. 28th", "w. 29th",
       "w. 30th", "w. 31st", "w. 32nd", "w. 33rd", "w. 34th", "w. 35th",
       "w. 36th", "w. 37th", "w 18th", "w 19th", "w 20th", "w 21st",
       "w 22nd", "w 23rd", "w 24th", "w 25th", "w 26th", "w 27th", "w 28th",
       "w 29th", "w 30th", "w 31st", "w 32nd", "w 33rd", "w 34th", "w 35th",
       "w 36th", "w 37th", "west 18th", "west 19th", "west 20th",
       "west 21st", "delaware ave", "lovering ave", "pennsylvania ave",
       "baynard blvd", "trolley square", "wawaset", "highlands",
       "rockford park"
    >>

\* A regex of the gazetteer as a sequence of pieces: a literal, or WS for \s+
WS == "\\s+"

\* Match the pieces at index i; the index after the match, or 0 for no match.
\* (\s+ is followed by a literal that starts with a non-space, so its greedy
\* match is the only one.)
RECURSIVE MatchPieces(_, _, _)
MatchPieces(text, i, pieces) ==
    IF pieces = <<>> THEN i
    ELSE IF Head(pieces) = WS
         THEN LET j == SkipSpaces(text, i) IN
              IF j = i THEN 0 ELSE MatchPieces(text, j, Tail(pieces))
         ELSE IF LitAt(text, i, Head(pieces))
              THEN MatchPieces(text, i + Len(Head(pieces)), Tail(pieces))
              ELSE 0

\* re.search(r'\b' + pieces + r'\b', text)
SearchWord(text, pieces) ==
    \E i \in 1..Len(text) :
        /\ WordBoundary(text, i)
        /\ LET e == MatchPieces(text, i, pieces) IN e # 0 /\ WordBoundary(text, e)

\* re.search(r'\b[1-9]00\s+block\s+of\s+(market|king|walnut|french)', text)
SearchBlockOf(text) ==
    \E i \in 1..Len(text) :
        /\ WordBoundary(text, i)
        /\ IsDigit(Ch(text, i)) /\ Ch(text, i) # "0"
        /\ \E w \in {"market", "king", "walnut", "french"} :
               MatchPieces(text, i + 1, <<"00", WS, "block", WS, "of", WS, w>>) # 0

\* The regex patterns of each ZIP, in declared order: the pattern's source
\* text and whether it is found in the text.
Patterns19801(text) ==
    << [pattern |-> "\\b[1-9]00\\s+block\\s+of\\s+(market|king|walnut|french)",
        found   |-> SearchBlockOf(text)],
       [pattern |-> "\\bdowntown\\b", found |-> SearchWord(text, <<"downtown">>)] >>

Patterns19802(text) ==
    << [pattern |-> "\\beast\\s+side\\b", found |-> SearchWord(text, <<"east", WS, "side">>)],
       [pattern |-> "\\bnortheast\\b", found |-> SearchWord(text, <<"northeast">>)],
       [pattern |-> "\\briverside\\b", found |-> SearchWord(text, <<"riverside">>)] >>

Patterns19805(text) ==
    << [pattern |-> "\\bprices\\s+corner\\b", found |-> SearchWord(text, <<"prices", WS, "corner">>)],
       [pattern |-> "\\bsouthwest\\b", found |-> SearchWord(text, <<"southwest">>)] >>

Patterns19806(text) ==
    << [pattern |-> "\\btrolley\\s+square\\b", found |-> SearchWord(text, <<"trolley", WS, "square">>)],
       [pattern |-> "\\bhighlands\\b", found |-> SearchWord(text, <<"highlands">>)],
       [pattern |-> "\\bnorthwest\\b", found |-> SearchWord(text, <<"northwest">>)] >>

\* WILMINGTON_STREET_TO_ZIP.items(), in insertion order
WILMINGTON_STREET_TO_ZIP(text) ==
    << [zip |-> "19801", streets |-> Streets19801, patterns |-> Patterns19801(text)],
       [zip |-> "19802", streets |-> Streets19802, patterns |-> Patterns19802(text)],
       [zip |-> "19805", streets |-> Streets19805, patterns |-> Patterns19805(text)],
       [zip |-> "19806", streets |-> Streets19806, patterns |-> Patterns19806(text)] >>

DEFAULT_WILMINGTON_ZIP == "19801"

\* One ZIP's rules: the first street found, else the first pattern found,
\* else no match; as <<zip, method>>.
ZipRuleMatch(text, rule) ==
    LET si == {i \in 1..Len(rule.streets) : Contains(text, rule.streets[i])}
        pi == {i \in 1..Len(rule.patterns) : rule.patterns[i].found}
        Min(S) == CHOOSE m \in S : \A n \in S : m <= n
    IN  IF si # {} THEN <<rule.zip, "Street match: " \o rule.streets[Min(si)]>>
        ELSE IF pi # {} THEN <<rule.zip, "Pattern match: " \o rule.patterns[Min(pi)].pattern>>
        ELSE NoMatch

RECURSIVE FirstZipRule(_, _)
FirstZipRule(text, rules) ==
    IF rules = <<>> THEN NoMatch
    ELSE LET m == ZipRuleMatch(text, Head(rules)) IN
         IF m # NoMatch THEN m ELSE FirstZipRule(text, Tail(rules))

infer_zip_from_narrative(narrative, city) ==
    IF ~Truthy(narrative) \/ city # "Wilmington"
    THEN <<DEFAULT_WILMINGTON_ZIP, "Default (no narrative or non-Wilmington)">>
    ELSE LET narrative_lower == lower(narrative)
             m == FirstZipRule(narrative_lower, WILMINGTON_STREET_TO_ZIP(narrative_lower))
         IN  IF m # NoMatch THEN m
             ELSE <<DEFAULT_WILMINGTON_ZIP, "Default (no street match)">>

\* infer_zip_from_narrative raises (AttributeError): narrative.lower() on a
\* narrative that is true and not a str.
infer_zip_raises(narrative, city) ==
    Truthy(narrative) /\ city = "Wilmington" /\ ~IsStr(narrative)

\* A variant that takes Delaware only for a record that names a city.
classify_record_state_by_city(record) ==
    LET state        == IF Truthy(record.jurisdiction_city) THEN "DE" ELSE None
        state_method == IF Truthy(record.jurisdiction_city)
                        THEN "From jurisdiction_city" ELSE "No state"
        city         == IF Truthy(record.jurisdiction_city)
                        THEN record.jurisdiction_city ELSE "Wilmington"
        z            == infer_zip_from_narrative(record.case_summary, city)
        found        == lookup_court(record.case_number)
        court        == IF Truthy(found) THEN found ELSE "Delaware Superior Court"
    IN  [ state     |-> state,
          city      |-> city,
          zip_code  |-> z[1],
          court     |-> court,
          pd        |-> city \o " Police Department",
          reasoning |-> "State: " \o state_method \o ". ZIP: " \o z[2] ]

\* record: the columns process_batch selects that classify_record reads.
classify_record(record) ==
    LET state        == "DE"
        state_method == "DE_GUNSTAT dataset implies Delaware"
        city         == IF Truthy(record.jurisdiction_city)
                        THEN record.jurisdiction_city ELSE "Wilmington"
        city_method  == IF Truthy(record.jurisdiction_city)
                        THEN "From jurisdiction_city" ELSE "Default for DE_GUNSTAT"
        z            == infer_zip_from_narrative(record.case_summary, city)
        case_number  == record.case_number
        found        == lookup_court(case_number)
        court        == IF Truthy(found) THEN found ELSE "Delaware Superior Court"
        court_method == IF Truthy(found)
                        THEN "Case prefix lookup (" \o SubSeq(case_number, 1, 2) \o ")"
                        ELSE "Default for felony cases"
        pd           == city \o " Police Department"
        pd_method    == "Derived from city (" \o city \o ")"
    IN  [ state     |-> state,
          city      |-> city,
          zip_code  |-> z[1],
          court     |-> court,
          pd        |-> pd,
          reasoning |-> "State: " \o state_method \o ". City: " \o city_method
                        \o ". ZIP: " \o z[2] \o ". Court: " \o court_method
                        \o ". PD: " \o pd_method ]

----------------------------------------------------------------------------
(* process_crime_gun_db.py: the parsers and the jurisdiction priority      *)
(* chain. A parser's "no result" (Python's None where a tuple is expected) *)
(* is NoMatch.                                                             *)

\* The class [A-Za-z\s\.\-'] of _RECOVERY_PATTERN's city group
IsCityCh(c) == IsLetter(c) \/ IsSpace(c) \/ c \in {".", "-", "'"}

\* First index >= i of text that holds no digit: \d+ from i
RECURSIVE SkipDigits(_, _)
SkipDigits(text, i) ==
    IF i <= Len(text) /\ IsDigit(Ch(text, i)) THEN SkipDigits(text, i + 1) ELSE i

\* First index >= i of text that holds no character of the city class
RECURSIVE SkipCityChs(_, _)
SkipCityChs(text, i) ==
    IF i <= Len(text) /\ IsCityCh(Ch(text, i)) THEN SkipCityChs(text, i + 1) ELSE i

\* [A-Z]{2} at index i
TwoUpperAt(text, i) ==
    i + 1 <= Len(text) /\ IsUpper(Ch(text, i)) /\ IsUpper(Ch(text, i + 1))

\* _RECOVERY_PATTERN anchored at index i: <<group(1), group(2)>> or NoMatch.
\*   (?:\d+\.\s*)?   p: where the city group starts
\*   ([A-Za-z][A-Za-z\s\.\-']+?),   q: the comma, the first character after
\*                                  p that is outside the class
\*   \s*([A-Z]{2})   r: the state code
\*   (?:\s|$|\))     what follows the code
RecoveryMatchAt(text, i) ==
    LET d == SkipDigits(text, i)
        p == IF d > i /\ d <= Len(text) /\ Ch(text, d) = "."
             THEN SkipSpaces(text, d + 1) ELSE i
        q == SkipCityChs(text, p + 1)
        r == SkipSpaces(text, q + 1)
    IN  IF /\ p <= Len(text) /\ IsLetter(Ch(text, p))
           /\ q >= p + 2 /\ q <= Len(text) /\ Ch(text, q) = ","
           /\ TwoUpperAt(text, r)
           /\ \/ r + 2 > Len(text)
              \/ IsSpace(Ch(text, r + 2))
              \/ Ch(text, r + 2) = ")"
        THEN << SubSeq(text, p, q - 1), SubSeq(text, r, r + 1) >>
        ELSE NoMatch

\* _RECOVERY_PATTERN.search: the leftmost index from i on that matches
RECURSIVE RecoverySearch(_, _)
RecoverySearch(text, i) ==
    IF i > Len(text) THEN NoMatch
    ELSE LET m == RecoveryMatchAt(text, i)
         IN  IF m # NoMatch THEN m ELSE RecoverySearch(text, i + 1)

parse_recovery_location(text) ==
    IF ~Truthy(text) THEN NoMatch
    ELSE LET match == RecoverySearch(PyStr(text), 1)
         IN  IF match # NoMatch THEN << strip(match[1]), match[2] >> ELSE NoMatch

\* Federal court abbreviation -> state code, in the order of the dict
COURT_STATE_MAP ==
    << <<"Alaska", "AK">>, <<"Ariz.", "AZ">>, <<"Cal.", "CA">>, <<"Colo.", "CO">>,
       <<"Conn.", "CT">>, <<"Del.", "DE">>, <<"Fla.", "FL">>, <<"Ga.", "GA">>,
       <<"Ill.", "IL">>, <<"Ind.", "IN">>, <<"Kan.", "KS">>, <<"Ky.", "KY">>,
       <<"La.", "LA">>, <<"Mass.", "MA">>, <<"Md.", "MD">>, <<"Mich.", "MI">>,
       <<"Minn.", "MN">>, <<"Mo.", "MO">>, <<"N.J.", "NJ">>, <<"N.Y.", "NY">>,
       <<"N.C.", "NC">>, <<"Ohio", "OH">>, <<"Okla.", "OK">>, <<"Or.", "OR">>,
       <<"Pa.", "PA">>, <<"Tenn.", "TN">>, <<"Tex.", "TX">>, <<"Va.", "VA">>,
       <<"Wash.", "WA">>, <<"W.Va.", "WV">>, <<"Wis.", "WI">> >>

\* The loop over COURT_STATE_MAP.items() from entry k on
RECURSIVE CourtScan(_, _)
CourtScan(text, k) ==
    IF k > Len(COURT_STATE_MAP) THEN None
    ELSE IF Contains(text, COURT_STATE_MAP[k][1]) THEN COURT_STATE_MAP[k][2]
    ELSE CourtScan(text, k + 1)

parse_court_state(text) == IF ~Truthy(text) THEN None ELSE CourtScan(PyStr(text), 1)

\* (?:--?>|==?>) at index i: the index after the arrow, 0 if there is none
ArrowEnd(text, i) ==
    IF LitAt(text, i, "-->") \/ LitAt(text, i, "==>") THEN i + 3
    ELSE IF LitAt(text, i, "->") \/ LitAt(text, i, "=>") THEN i + 2
    ELSE 0

\* _FLOW_PATTERN anchored at index i: <<group(1), group(2)>> or NoMatch
FlowMatchAt(text, i) ==
    LET a == SkipSpaces(text, i + 2)
        e == ArrowEnd(text, a)
        d == SkipSpaces(text, e)
    IN  IF ~TwoUpperAt(text, i) \/ e = 0 THEN NoMatch
        ELSE IF LitAt(text, d, "SWB") THEN << SubSeq(text, i, i + 1), "SWB" >>
        ELSE IF TwoUpperAt(text, d)
             THEN << SubSeq(text, i, i + 1), SubSeq(text, d, d + 1) >>
        ELSE NoMatch

\* _FLOW_PATTERN.search
RECURSIVE FlowSearch(_, _)
FlowSearch(text, i) ==
    IF i > Len(text) THEN NoMatch
    ELSE LET m == FlowMatchAt(text, i)
         IN  IF m # NoMatch THEN m ELSE FlowSearch(text, i + 1)

\* A variant that searches the text as written.
parse_trafficking_flow_as_written(text) ==
    IF ~Truthy(text) THEN NoMatch ELSE FlowSearch(PyStr(text), 1)

parse_trafficking_flow(text) ==
    IF ~Truthy(text) THEN NoMatch ELSE FlowSearch(upper(PyStr(text)), 1)

\* Python's True and False as returned by convert_boolean, whose third
\* result is None
PyTrue == "<True>"
PyFalse == "<False>"

\* pd.isna(value) on a scalar
IsNa(value) == value = None

convert_boolean(value) ==
    IF IsNa(value) THEN None
    ELSE LET val == lower(strip(PyStr(value)))
         IN  IF val \in {"yes", "true", "1"} THEN PyTrue
             ELSE IF val \in {"no", "false", "0"} THEN PyFalse
             ELSE None

\* A spreadsheet row (pd.Series): a sequence of <<column, value>>; a NaN
\* cell holds None.
RowIndex(row) == {row[k][1] : k \in 1..Len(row)}
RowGet(row, col) ==
    IF col \in RowIndex(row)
    THEN row[CHOOSE k \in 1..Len(row) :
                 row[k][1] = col /\ \A j \in 1..(k - 1) : row[j][1] # col][2]
    ELSE None

\* The first column whose name holds "Case subject", None if there is none
CaseSubject(row) ==
    LET ks == {k \in 1..Len(row) : Contains(row[k][1], "Case subject")}
    IN  IF ks = {} THEN None
        ELSE row[CHOOSE k \in ks : \A j \in ks : k <= j][2]

recovery_col == "Location(s) of recovery(ies)"
case_col == "Case"

\* Variants of the chain, by name: "fills_city" takes a court result's city
\* from the sheet default, "flow_source" takes the state of a trafficking
\* flow from its origin, "unlabelled" gives a dealer-state result the method
\* UNKNOWN.
get_jurisdiction_variant(row, sheet_name, variant) ==
    LET recovery == IF recovery_col \in RowIndex(row)
                    THEN parse_recovery_location(RowGet(row, recovery_col))
                    ELSE NoMatch
        court_state == IF case_col \in RowIndex(row)
                       THEN parse_court_state(RowGet(row, case_col))
                       ELSE None
        case_subject == CaseSubject(row)
        flow == IF case_subject # None
                THEN parse_trafficking_flow(case_subject) ELSE NoMatch
        dealer_state == RowGet(row, "State")
        sheet_city == IF Contains(sheet_name, "Philadelphia") THEN "Philadelphia"
                      ELSE IF Contains(sheet_name, "Rochester") THEN "Rochester"
                      ELSE None
    IN  IF recovery # NoMatch THEN << recovery[2], recovery[1], "RECOVERY" >>
        ELSE IF Truthy(court_state)
             THEN << court_state,
                     IF variant = "fills_city" THEN sheet_city ELSE None, "COURT" >>
        ELSE IF flow # NoMatch /\ flow[2] # "SWB"
             THEN << IF variant = "flow_source" THEN flow[1] ELSE flow[2],
                     None, "TRAFFICKING" >>
        ELSE IF Contains(sheet_name, "Philadelphia")
             THEN << "PA", "Philadelphia", "SHEET_DEFAULT" >>
        ELSE IF Contains(sheet_name, "Rochester")
             THEN << "NY", "Rochester", "SHEET_DEFAULT" >>
        ELSE IF Truthy(dealer_state)
             THEN << upper(strip(dealer_state)), None,
                     IF variant = "unlabelled" THEN "UNKNOWN" ELSE "DEALER_STATE" >>
        ELSE << None, None, "UNKNOWN" >>

get_jurisdiction_fills_city(row, sheet_name) ==
    get_jurisdiction_variant(row, sheet_name, "fills_city")

get_jurisdiction_flow_source(row, sheet_name) ==
    get_jurisdiction_variant(row, sheet_name, "flow_source")

get_jurisdiction_unlabelled(row, sheet_name) ==
    get_jurisdiction_variant(row, sheet_name, "unlabelled")

\* A variant of the chain that asks the dealer's state before the sheet and
\* the court reference before the recovery location.
get_jurisdiction_reordered(row, sheet_name) ==
    LET recovery == IF recovery_col \in RowIndex(row)
                    THEN parse_recovery_location(RowGet(row, recovery_col))
                    ELSE NoMatch
        court_state == IF case_col \in RowIndex(row)
                       THEN parse_court_state(RowGet(row, case_col))
                       ELSE None
        case_subject == CaseSubject(row)
        flow == IF case_subject # None
                THEN parse_trafficking_flow(case_subject) ELSE NoMatch
        dealer_state == RowGet(row, "State")
    IN  IF Truthy(court_state) THEN << court_state, None, "COURT" >>
        ELSE IF recovery # NoMatch THEN << recovery[2], recovery[1], "RECOVERY" >>
        ELSE IF flow # NoMatch /\ flow[2] # "SWB"
             THEN << flow[2], None, "TRAFFICKING" >>
        ELSE IF Truthy(dealer_state)
             THEN << upper(strip(dealer_state)), None, "DEALER_STATE" >>
        ELSE IF Contains(sheet_name, "Philadelphia")
             THEN << "PA", "Philadelphia", "SHEET_DEFAULT" >>
        ELSE IF Contains(sheet_name, "Rochester")
             THEN << "NY", "Rochester", "SHEET_DEFAULT" >>
        ELSE << None, None, "UNKNOWN" >>

\* Returns <<state, city, method>>.
get_jurisdiction(row, sheet_name) ==
    LET recovery == IF recovery_col \in RowIndex(row)
                    THEN parse_recovery_location(RowGet(row, recovery_col))
                    ELSE NoMatch
        court_state == IF case_col \in RowIndex(row)
                       THEN parse_court_state(RowGet(row, case_col))
                       ELSE None
        case_subject == CaseSubject(row)
        flow == IF case_subject # None
                THEN parse_trafficking_flow(case_subject) ELSE NoMatch
        dealer_state == RowGet(row, "State")
    IN  IF recovery # NoMatch THEN << recovery[2], recovery[1], "RECOVERY" >>
        ELSE IF Truthy(court_state) THEN << court_state, None, "COURT" >>
        ELSE IF flow # NoMatch /\ flow[2] # "SWB"
             THEN << flow[2], None, "TRAFFICKING" >>
        ELSE IF Contains(sheet_name, "Philadelphia")
             THEN << "PA", "Philadelphia", "SHEET_DEFAULT" >>
        ELSE IF Contains(sheet_name, "Rochester")
             THEN << "NY", "Rochester", "SHEET_DEFAULT" >>
        ELSE IF Truthy(dealer_state)
             THEN << upper(strip(dealer_state)), None, "DEALER_STATE" >>
        ELSE << None, None, "UNKNOWN" >>

\* The record a row becomes; skipped is TRUE where transform_row returns
\* None (a garbage row).
SkippedRow ==
    [ skipped |-> TRUE, source_dataset |-> None, source_sheet |-> None,
      jurisdiction_state |-> None, jurisdiction_city |-> None,
      jurisdiction_method |-> None, dealer_state |-> None, case_name |-> None,
      trafficking_origin |-> None, trafficking_destination |-> None,
      is_southwest_border |-> FALSE ]

transform_row(row, sheet_name) ==
    LET ffl_name == RowGet(row, "FFL")
        j == get_jurisdiction(row, sheet_name)
        flow == parse_trafficking_flow(CaseSubject(row))
    IN  IF ffl_name = None \/ strip(ffl_name) \in {"?", ""} THEN SkippedRow
        ELSE [ skipped |-> FALSE, source_dataset |-> "CRIME_GUN_DB",
               source_sheet |-> sheet_name,
               jurisdiction_state |-> j[1], jurisdiction_city |-> j[2],
               jurisdiction_method |-> j[3],
               dealer_state |-> RowGet(row, "State"),
               case_name |-> RowGet(row, case_col),
               trafficking_origin |-> IF flow # NoMatch THEN flow[1] ELSE None,
               trafficking_destination |-> IF flow # NoMatch THEN flow[2] ELSE None,
               is_southwest_border |-> IF flow # NoMatch THEN flow[2] = "SWB" ELSE FALSE ]

----------------------------------------------------------------------------
(* database.py: the crime_gun_events table                                 *)

\* The jurisdiction columns a row is loaded with: process_gunstat gives every
\* DE_GUNSTAT row Delaware at HIGH confidence; a dealer-database row with no
\* location field has none (transform_row writes no confidence).
LoadedJurisdiction(source_dataset) ==
    IF source_dataset = "DE_GUNSTAT"
    THEN [ state |-> "DE", method |-> "IMPLICIT", confidence |-> "HIGH" ]
    ELSE [ state |-> None, method |-> "UNKNOWN", confidence |-> None ]

\* A row of crime_gun_events: the columns the classifier selects, the
\* jurisdiction columns of the load and the six crime_location_* columns the
\* classifier writes.
NewRow(input) ==
    [ source_dataset           |-> input.source_dataset,
      jurisdiction_state       |-> LoadedJurisdiction(input.source_dataset).state,
      jurisdiction_method      |-> LoadedJurisdiction(input.source_dataset).method,
      jurisdiction_confidence  |-> LoadedJurisdiction(input.source_dataset).confidence,
      jurisdiction_city        |-> input.jurisdiction_city,
      case_number              |-> input.case_number,
      case_summary             |-> input.case_summary,
      crime_location_state     |-> None,
      crime_location_city      |-> None,
      crime_location_zip       |-> None,
      crime_location_court     |-> None,
      crime_location_pd        |-> None,
      crime_location_reasoning |-> None ]

\* UPDATE ... SET crime_location_* = ? on one row
\* A variant that also stores the city as the row's jurisdiction city.
SetLocationAndCity(row, v) ==
    [ row EXCEPT !.crime_location_state     = v.state,
                 !.crime_location_city      = v.city,
                 !.crime_location_zip       = v.zip_code,
                 !.crime_location_court     = v.court,
                 !.crime_location_pd        = v.pd,
                 !.crime_location_reasoning = v.reasoning,
                 !.jurisdiction_city        = v.city ]

SetLocation(row, v) ==
    [ row EXCEPT !.crime_location_state     = v.state,
                 !.crime_location_city      = v.city,
                 !.crime_location_zip       = v.zip_code,
                 !.crime_location_court     = v.court,
                 !.crime_location_pd        = v.pd,
                 !.crime_location_reasoning = v.reasoning ]

\* UPDATE crime_gun_events SET ... WHERE rowid = ?: the table afterwards and
\* cursor.rowcount
UpdateWhereRowid(tbl, rowid, v) ==
    [ table    |-> [r \in DOMAIN tbl |-> IF r = rowid THEN SetLocation(tbl[r], v) ELSE tbl[r]],
      rowcount |-> Cardinality({r \in DOMAIN tbl : r = rowid}) ]

\* A variant that reports whether the row's content changed, where the code
\* reports whether a row matched.
update_reports_change(tbl, record_id, v) ==
    LET u == UpdateWhereRowid(tbl, record_id, v)
    IN  [table |-> u.table, ret |-> u.table # tbl]

\* A variant that reports success whatever the UPDATE matched.
update_reports_success(tbl, record_id, v) ==
    LET u == UpdateWhereRowid(tbl, record_id, v)
    IN  [table |-> u.table, ret |-> TRUE]

\* update_crime_location (SQLite back end): execute, commit, rowcount > 0
update_crime_location(tbl, record_id, v) ==
    LET u == UpdateWhereRowid(tbl, record_id, v)
    IN  [table |-> u.table, ret |-> u.rowcount > 0]

\* COUNT(*) ... WHERE crime_location_state IS NULL
Unclassified(tbl) == {r \in DOMAIN tbl : tbl[r].crime_location_state = None}

RECURSIVE Ascending(_)
Ascending(S) ==
    IF S = {} THEN <<>>
    ELSE LET m == CHOOSE x \in S : \A y \in S : x <= y
         IN  <<m>> \o Ascending(S \ {m})

\* SQLite's LIMIT n: a negative n is no limit.
Limit(seq, n) ==
    IF n < 0 \/ n >= Len(seq) THEN seq ELSE SubSeq(seq, 1, n)

\* The column list of process_batch's SELECT, for the rowids in ids
SelectedColumns(tbl, ids) ==
    [i \in 1..Len(ids) |->
        [ rowid             |-> ids[i],
          source_dataset    |-> tbl[ids[i]].source_dataset,
          jurisdiction_city |-> tbl[ids[i]].jurisdiction_city,
          case_number       |-> tbl[ids[i]].case_number,
          case_summary      |-> tbl[ids[i]].case_summary ]]

\* A variant of the SELECT with no WHERE clause.
SelectAnyRows(tbl, batch_size) ==
    SelectedColumns(tbl, Limit(Ascending(DOMAIN tbl), batch_size))

\* process_batch's SELECT ... WHERE crime_location_state IS NULL LIMIT ?
\* (a table scan: rows come in rowid order)
SelectUnclassified(tbl, batch_size) ==
    SelectedColumns(tbl, Limit(Ascending(Unclassified(tbl)), batch_size))

\* seq of a table with no AUTOINCREMENT column: one pandas created
NoSeq == -1

\* The largest rowid of a table, 0 for an empty one
MaxRowid(tbl) ==
    IF DOMAIN tbl = {} THEN 0 ELSE CHOOSE m \in DOMAIN tbl : \A r \in DOMAIN tbl : r <= m

\* The rowid before the one SQLite gives the next row: the largest in the
\* table, and with AUTOINCREMENT the largest the table ever held.
LastRowid(tbl, sq) ==
    IF sq # NoSeq /\ sq > MaxRowid(tbl) THEN sq ELSE MaxRowid(tbl)

\* df.to_sql(..., if_exists="append"): one INSERT per row of the frame
ToSqlAppend(tbl, sq, rows) ==
    LET last == LastRowid(tbl, sq)
        new  == (last + 1)..(last + Len(rows))
    IN  [ table |-> [r \in DOMAIN tbl \cup new |-> IF r \in new THEN rows[r - last] ELSE tbl[r]],
          seq   |-> IF sq = NoSeq THEN NoSeq ELSE last + Len(rows) ]

\* df.to_sql(..., if_exists="replace"): DROP TABLE, CREATE TABLE with the
\* columns of the frame, one INSERT per row
ToSqlReplace(tbl, sq, rows) ==
    [ table |-> [r \in 1..Len(rows) |-> rows[r]], seq |-> NoSeq ]

\* A variant that appends to the table it finds.
load_df_to_db_append(tbl, sq, rows) == ToSqlAppend(tbl, sq, rows)

\* load_df_to_db with its default if_exists="replace", as process_gunstat
\* calls it
load_df_to_db(tbl, sq, rows) == ToSqlReplace(tbl, sq, rows)

\* A variant that deletes no row.
DeleteNothing(tbl) == tbl

\* DELETE FROM crime_gun_events WHERE source_dataset = 'CRIME_GUN_DB'
DeleteCrimeGunDb(tbl) ==
    [r \in {i \in DOMAIN tbl : tbl[i].source_dataset # "CRIME_GUN_DB"} |-> tbl[r]]

\* The row to_sql inserts for a record of transform_row: the columns of the
\* record, NULL for every other column
CrimeGunRow(record) ==
    [ source_dataset           |-> record.source_dataset,
      jurisdiction_state       |-> record.jurisdiction_state,
      jurisdiction_method      |-> record.jurisdiction_method,
      jurisdiction_confidence  |-> None,
      jurisdiction_city        |-> record.jurisdiction_city,
      case_number              |-> None,
      case_summary             |-> None,
      crime_location_state     |-> None,
      crime_location_city      |-> None,
      crime_location_zip       |-> None,
      crime_location_court     |-> None,
      crime_location_pd        |-> None,
      crime_location_reasoning |-> None ]

\* A variant whose UPDATEs reach the table with the state column alone.
CommitStateOnly(tbl, pend) ==
    [r \in DOMAIN tbl |->
        IF r \in DOMAIN pend
        THEN [tbl[r] EXCEPT !.crime_location_state = pend[r].state] ELSE tbl[r]]

\* conn.commit(): the connection's pending UPDATEs reach the table.
Commit(tbl, pend) ==
    [r \in DOMAIN tbl |-> IF r \in DOMAIN pend THEN SetLocation(tbl[r], pend[r]) ELSE tbl[r]]

----------------------------------------------------------------------------
(* Bounds and input sets                                                   *)

\* Rows in the table of the store specifications.
NumRows == 3
\* Largest --batch-size tried (the smallest is -1).
MaxBatch == 2
\* update_crime_location calls a classifier agent makes while main runs.
MaxAgentCalls == 1
\* update_crime_location calls in a behaviour of the persist specification.
MaxCalls == 2

RowIds == 1..NumRows

\* Contents of loaded rows: a DE_GUNSTAT row as process_gunstat loads it, a
\* CRIME_GUN_DB row (no case_number, no case_summary), and a DE_GUNSTAT row
\* of another city and court.
RowInputs ==
    << [ source_dataset |-> "DE_GUNSTAT", jurisdiction_city |-> "Wilmington",
         case_number |-> "30-23-063056", case_summary |-> "Shots fired on N. Pine St" ],
       [ source_dataset |-> "CRIME_GUN_DB", jurisdiction_city |-> None,
         case_number |-> None, case_summary |-> None ],
       [ source_dataset |-> "DE_GUNSTAT", jurisdiction_city |-> "Dover",
         case_number |-> "31-22-001234", case_summary |-> "Traffic stop downtown" ] >>

\* The content loaded into row r.
RowInput(r) == RowInputs[((r - 1) % Len(RowInputs)) + 1]

\* Values a classifier agent persists with update_crime_location.
AgentValues ==
    { [ state |-> "DE", city |-> "Dover", zip_code |-> "19901",
        court |-> "Court of Common Pleas", pd |-> "Dover Police Department",
        reasoning |-> "agent: narrative names Dover PD" ],
      [ state |-> "PA", city |-> "Philadelphia", zip_code |-> "19104",
        court |-> "E.D. Pa.", pd |-> "Philadelphia Police Department",
        reasoning |-> "agent: recovery in Philadelphia" ] }

\* classify_record on each row content of the model, evaluated once: what
\* process_batch's call classify_record(record_dict) returns.
InputOf(record) ==
    [ source_dataset |-> record.source_dataset, jurisdiction_city |-> record.jurisdiction_city,
      case_number |-> record.case_number, case_summary |-> record.case_summary ]

ClassifiedInputs == [i \in {RowInputs[k] : k \in 1..Len(RowInputs)} |-> classify_record(i)]

Classify(record) == ClassifiedInputs[InputOf(record)]

\* The tables main can start on: every row loaded, and those of `done`
\* classified by an earlier batch.
TableWith(ids, done) ==
    [r \in ids |-> IF r \in done THEN SetLocation(NewRow(RowInput(r)), Classify(RowInput(r)))
                   ELSE NewRow(RowInput(r))]

\* argparse's default for --batch-size
DefaultBatchSize == 50

\* The command lines of main: --stats ignores every other flag.
ArgsSet ==
    [batch_size : -1..MaxBatch, dry_run : BOOLEAN, all : BOOLEAN, stats : {FALSE}]
    \cup {[batch_size |-> DefaultBatchSize, dry_run |-> FALSE, all |-> FALSE, stats |-> TRUE]}

NoCall == [record_id |-> 0, values |-> <<>>, ret |-> FALSE, row |-> <<>>, repeat |-> FALSE]
NoExt == [ called |-> FALSE, fn |-> "", input |-> None, raised |-> FALSE, result |-> None ]
NoJur ==
    [ resolved |-> FALSE, row |-> <<>>, sheet_name |-> "", record |-> SkippedRow ]

\* No loader has run.
NoLoad == [ runs |-> 0, by |-> "", workbook |-> <<>>, calls |-> 0, repeat |-> FALSE ]

\* No second process_batch is running.
NoPeer ==
    [ pc |-> "idle", batch_size |-> 0, records |-> <<>>, processed |-> 0,
      pending |-> <<>>, txn |-> FALSE, fetched |-> {} ]

----------------------------------------------------------------------------
(* State                                                                   *)

VARIABLES
    table,            \* crime_gun_events: rowid -> row
    args,             \* main: the parsed command line
    pc,               \* main / process_batch: where the coordinator is
    records,          \* process_batch: cursor.fetchall()
    processed,        \* process_batch: processed
    pending,          \* process_batch: UPDATEs executed and not yet committed
    txn,              \* process_batch: its connection holds the write lock
    total_processed,  \* main: total_processed
    batch_num,        \* main: batch_num
    calls,            \* update_crime_location calls made so far
    lastCall,         \* the last update_crime_location call and its result
    nullAtFetch,      \* history: rowids whose state was NULL as the running batch fetched
    written,          \* history: rowids the running batch executed an UPDATE for
    updates,          \* history: UPDATE statements the coordinator executed
    commits,          \* history: commits the coordinator made
    failed,           \* history: rowid whose UPDATE raised (0: none)
    startUnclassified,\* history: rows with no crime_location_state as main started
    jur,              \* transform_row: the last row resolved and its result
    ext,              \* the last call of a matcher on its own and its outcome
    peer,             \* a second process_batch on a connection of its own
    load,             \* history: the last run of a loader, its workbook, and whether
                      \* it repeats the run before it with no update in between
    seq               \* sqlite_sequence: the last id of an AUTOINCREMENT table

vars ==
    << table, args, pc, records, processed, pending, txn, total_processed,
       batch_num, calls, lastCall, nullAtFetch, written, updates, commits,
       failed, startUnclassified, jur, ext, peer, load, seq >>

coordVars ==
    << args, pc, records, processed, pending, txn, total_processed, batch_num,
       nullAtFetch, written, updates, commits, failed, startUnclassified >>

NoPending == [r \in {} |-> None]

InitCoordinator ==
    /\ pc = "start"
    /\ records = <<>>
    /\ processed = 0
    /\ pending = NoPending
    /\ txn = FALSE
    /\ total_processed = 0
    /\ batch_num = 0
    /\ nullAtFetch = {}
    /\ written = {}
    /\ updates = 0
    /\ commits = 0
    /\ failed = 0
    /\ startUnclassified = Cardinality(Unclassified(table))

Init ==
    /\ table \in {TableWith(RowIds, done) : done \in SUBSET RowIds}
    /\ args \in ArgsSet
    /\ InitCoordinator
    /\ calls = 0
    /\ lastCall = NoCall
    /\ jur = NoJur
    /\ ext = NoExt
    /\ peer = NoPeer
    /\ load = NoLoad
    /\ seq = NoSeq

----------------------------------------------------------------------------
(* classify_location.py: main and process_batch                            *)

\* The counters of the process-all loop are tracked exactly up to this value
\* and held there: more than a run that classifies every row can count.
CounterCap == Cardinality(DOMAIN table) + 2
Capped(n) == IF n > CounterCap THEN CounterCap ELSE n

\* A variant that writes whatever the flag says.
WritesAlways(dry_run) == TRUE

\* process_batch's `if not dry_run`, before the UPDATE and before the commit
Writes(dry_run) == ~dry_run

\* A variant with no early return on an empty fetch.
NeverNoRecords(fetched) == FALSE

\* process_batch's `if not records`: close and return 0
NoRecords(fetched) == fetched = <<>>

\* main's process-all loop: `if processed == 0: break`
LoopBreaks(n) == n = 0

\* main up to the first process_batch call; --stats only reads and returns.
MainStart ==
    /\ pc = "start"
    /\ IF args.stats
       THEN pc' = "done" /\ UNCHANGED <<total_processed, batch_num>>
       ELSE /\ pc' = "call"
            /\ total_processed' = 0
            /\ batch_num' = 1
    /\ startUnclassified' = Cardinality(Unclassified(table))
    /\ UNCHANGED << table, args, records, processed, pending, txn, calls, lastCall,
                    nullAtFetch, written, updates, commits, failed, jur, ext, peer, load, seq >>

\* process_batch up to the loop: connect and SELECT. With no record it closes
\* and returns 0 to main, whose process-all loop breaks on 0.
Fetch ==
    /\ pc = "call"
    /\ LET fetched == SelectUnclassified(table, args.batch_size) IN
       /\ records' = fetched
       /\ processed' = 0
       /\ nullAtFetch' = Unclassified(table)
       /\ written' = {}
       /\ pc' = IF ~NoRecords(fetched) THEN "loop"
                ELSE IF args.all /\ ~LoopBreaks(0) THEN "call"
                ELSE "done"
    /\ UNCHANGED << table, args, pending, txn, total_processed, batch_num, calls,
                    lastCall, updates, commits, failed, startUnclassified, jur, ext, peer, load, seq >>

\* One iteration of the loop over records: classify, UPDATE unless --dry-run.
\* The first UPDATE opens the connection's transaction; an UPDATE waits while
\* another connection holds the write lock.
Step ==
    /\ pc = "loop"
    /\ processed < Len(records)
    /\ Writes(args.dry_run) => ~peer.txn
    /\ LET record == records[processed + 1]
           rowid  == record.rowid
           result == Classify(record)
       IN  IF Writes(args.dry_run)
           THEN /\ pending' = [r \in DOMAIN pending \cup ({rowid} \cap DOMAIN table) |->
                                  IF r = rowid THEN result ELSE pending[r]]
                /\ txn' = TRUE
                /\ written' = written \cup {rowid}
                /\ updates' = updates + 1
           ELSE UNCHANGED <<pending, txn, written, updates>>
    /\ processed' = processed + 1
    /\ UNCHANGED << table, args, pc, records, total_processed, batch_num, calls,
                    lastCall, nullAtFetch, commits, failed, startUnclassified, jur, ext, peer, load, seq >>

\* The UPDATE of one iteration raises (sqlite3.Error): nothing in process_batch
\* or main catches it, so the process ends and the open transaction, never
\* committed, is rolled back.
StepRaises ==
    /\ pc = "loop"
    /\ processed < Len(records)
    /\ Writes(args.dry_run)
    /\ failed' = records[processed + 1].rowid
    /\ pending' = NoPending
    /\ txn' = FALSE
    /\ pc' = "crashed"
    /\ UNCHANGED << table, args, records, processed, total_processed, batch_num,
                    calls, lastCall, nullAtFetch, written, updates, commits,
                    startUnclassified, jur, ext, peer, load, seq >>

\* process_batch after the loop: commit unless --dry-run, close, return
\* processed; then main: the process-all loop adds to its counters and calls
\* again, a single batch ends.
Finish ==
    /\ pc = "loop"
    /\ processed = Len(records)
    /\ IF Writes(args.dry_run)
       THEN /\ table' = Commit(table, pending)
            /\ commits' = commits + 1
       ELSE UNCHANGED <<table, commits>>
    /\ pending' = NoPending
    /\ txn' = FALSE
    /\ IF args.all /\ ~LoopBreaks(processed)
       THEN /\ total_processed' = Capped(total_processed + processed)
            /\ batch_num' = Capped(batch_num + 1)
            /\ pc' = "call"
       ELSE /\ pc' = "done"
            /\ UNCHANGED <<total_processed, batch_num>>
    /\ UNCHANGED << args, records, processed, calls, lastCall, nullAtFetch, written,
                    updates, failed, startUnclassified, jur, ext, peer, load, seq >>

\* A classifier agent persists a result with update_crime_location. It waits
\* while another connection holds the write lock.
Persist(record_id, v) ==
    /\ ~txn /\ ~peer.txn
    /\ LET r == update_crime_location(table, record_id, v) IN
       /\ table' = r.table
       /\ lastCall' = [ record_id |-> record_id, values |-> v, ret |-> r.ret,
                        row |-> IF record_id \in DOMAIN r.table
                                THEN r.table[record_id] ELSE <<>>,
                        repeat |-> /\ lastCall.record_id = record_id
                                   /\ lastCall.values = v
                                   /\ lastCall.ret ]
    /\ calls' = calls + 1
    /\ UNCHANGED << coordVars, jur, ext, peer, load, seq >>

CoordinatorNext == MainStart \/ Fetch \/ Step \/ StepRaises \/ Finish

\* The ids an agent passes: the rows of the table and one that is not there.
AgentIds == 1..(NumRows + 1)

AgentNext ==
    /\ calls < MaxAgentCalls
    /\ \E record_id \in AgentIds, v \in AgentValues : Persist(record_id, v)

Next == CoordinatorNext \/ AgentNext

Spec == Init /\ [][Next]_vars

\* main runs to its end: every enabled step of the coordinator is taken.
FairSpec == Spec /\ WF_vars(CoordinatorNext)

\* update_crime_location on its own: classifier agents persisting results.
PersistNext ==
    /\ calls < MaxCalls
    /\ \E record_id \in AgentIds, v \in AgentValues : Persist(record_id, v)

SpecPersist == Init /\ [][PersistNext]_vars

\* The coordinator on a table of more rows than the batch-size cap of the
\* design (HardCap), every row loaded and none classified.
HardCap == 20
CapRows == 21

InitCap ==
    /\ table = TableWith(1..CapRows, {})
    /\ args \in [ batch_size : {HardCap, HardCap + 1, DefaultBatchSize},
                  dry_run : BOOLEAN, all : BOOLEAN, stats : {FALSE} ]
    /\ InitCoordinator
    /\ calls = 0
    /\ lastCall = NoCall
    /\ jur = NoJur
    /\ ext = NoExt
    /\ peer = NoPeer
    /\ load = NoLoad
    /\ seq = NoSeq

SpecCap == InitCap /\ [][CoordinatorNext]_vars

\* A second process_batch, started by another process on a connection of its
\* own while main runs: its SELECT.
PeerFetch ==
    /\ peer.pc = "call"
    /\ LET fetched == SelectUnclassified(table, peer.batch_size) IN
       peer' = [ peer EXCEPT !.records = fetched,
                             !.fetched = {fetched[k].rowid : k \in 1..Len(fetched)},
                             !.pc = IF NoRecords(fetched) THEN "done" ELSE "loop" ]
    /\ UNCHANGED << table, coordVars, calls, lastCall, jur, ext, load, seq >>

\* One iteration of its loop: classify and UPDATE, once the write lock is free.
PeerStep ==
    /\ peer.pc = "loop"
    /\ peer.processed < Len(peer.records)
    /\ ~txn
    /\ LET record == peer.records[peer.processed + 1]
           rowid  == record.rowid
           result == Classify(record)
       IN  peer' = [ peer EXCEPT
                       !.pending = [r \in DOMAIN peer.pending \cup ({rowid} \cap DOMAIN table) |->
                                       IF r = rowid THEN result ELSE peer.pending[r]],
                       !.txn = TRUE,
                       !.processed = peer.processed + 1 ]
    /\ UNCHANGED << table, coordVars, calls, lastCall, jur, ext, load, seq >>

\* Its UPDATE raises (sqlite3.Error): the process ends, its transaction is
\* rolled back.
PeerStepRaises ==
    /\ peer.pc = "loop"
    /\ peer.processed < Len(peer.records)
    /\ peer' = [ peer EXCEPT !.pc = "crashed", !.pending = <<>>, !.txn = FALSE ]
    /\ UNCHANGED << table, coordVars, calls, lastCall, jur, ext, load, seq >>

\* After its loop: commit, close, return.
PeerFinish ==
    /\ peer.pc = "loop"
    /\ peer.processed = Len(peer.records)
    /\ table' = Commit(table, peer.pending)
    /\ peer' = [ peer EXCEPT !.pc = "done", !.pending = <<>>, !.txn = FALSE ]
    /\ UNCHANGED << coordVars, calls, lastCall, jur, ext, load, seq >>

PeerNext == PeerFetch \/ PeerStep \/ PeerStepRaises \/ PeerFinish

\* Two coordinators over one store: main, and a second process_batch of any
\* batch size.
InitConcurrent ==
    /\ table \in {TableWith(RowIds, done) : done \in SUBSET RowIds}
    /\ args \in [batch_size : -1..MaxBatch, dry_run : BOOLEAN, all : BOOLEAN, stats : {FALSE}]
    /\ InitCoordinator
    /\ calls = 0
    /\ lastCall = NoCall
    /\ jur = NoJur
    /\ ext = NoExt
    /\ peer \in {[NoPeer EXCEPT !.pc = "call", !.batch_size = b] : b \in 1..MaxBatch}
    /\ load = NoLoad
    /\ seq = NoSeq

SpecConcurrent == InitConcurrent /\ [][CoordinatorNext \/ PeerNext]_vars

\* The dealer-database loader on its own: main transforms the rows of the
\* workbook's sheets one after the other.
RecoveryTexts ==
    { None, "Sacramento, CA", "1. St. Louis, MO 2. Reno, NV", "unknown" }
CaseTexts ==
    { None, "US v. Smith (E.D. Pa. 2020)", "US v. Doe, S.D. W.Va.", "State v. Jones" }
SubjectTexts == { None, "AK-->CA", "tx -> swb", "straw purchaser" }
DealerStates == { None, " tx ", "Texas" }
FflNames == { "Acme Guns", " ? " }
SheetNames == { "CG court doc FFLs", "Philadelphia Trace", "Rochester Trace" }

SheetRow(ffl, state, case, subject, recovery) ==
    << <<"FFL", ffl>>, <<"State", state>>, <<case_col, case>>,
       <<"Case subject", subject>>, <<recovery_col, recovery>> >>

SheetRows ==
    { SheetRow(f, s, c, t, r) :
        f \in FflNames, s \in DealerStates, c \in CaseTexts,
        t \in SubjectTexts, r \in RecoveryTexts }

\* transform_row over the rows and sheets above, computed once
Transformed ==
    [ row \in SheetRows |-> [ sheet_name \in SheetNames |-> transform_row(row, sheet_name) ] ]

\* main's loop body: one row of one sheet becomes a record (or is skipped).
TransformRow ==
    /\ \E row \in SheetRows, sheet_name \in SheetNames :
           jur' = [ resolved |-> TRUE, row |-> row, sheet_name |-> sheet_name,
                    record |-> Transformed[row][sheet_name] ]
    /\ UNCHANGED << table, coordVars, calls, lastCall, ext, peer, load, seq >>

InitJur ==
    /\ table = TableWith({}, {})
    /\ args = [batch_size |-> DefaultBatchSize, dry_run |-> FALSE, all |-> FALSE, stats |-> TRUE]
    /\ InitCoordinator
    /\ calls = 0
    /\ lastCall = NoCall
    /\ jur = NoJur
    /\ ext = NoExt
    /\ peer = NoPeer
    /\ load = NoLoad
    /\ seq = NoSeq

SpecJur == InitJur /\ [][TransformRow]_vars

\* The matchers on their own, each called on one value.
Matchers ==
    { "parse_recovery_location", "parse_court_state", "parse_trafficking_flow",
      "lookup_court", "infer_zip_from_narrative" }

MatcherInputs ==
    { None, "" } \cup NonStrings \cup
    { "Sacramento, CA", "1. Woodland, CA\n2. Citrus Heights, CA (Sacramento burb)",
      "U.S. v. Smith, E.D. Pa.", "U.S. v. Doe, No. 5:19-cr-7 (S.D. W.Va.)",
      "N.D. W.Va.", "E.D. Va.", "D. Mass.", "S.D. Ohio, formerly W.D. Pa.", "garbage",
      "Alaska --> California", "AK-->CA", "TX->SWB", "FL==>GA", "ak  =>  swb x",
      "AB -> SW", "NY>NJ", "A->B", "x AB- >CD EF-->GH", "no flow here",
      "30-23-063056", "Shots fired on N. Pine St",
      "Woodland, CA; Reno, NV", "1. San Francisco, CA\n2. Daly City, CA" }

\* The outcome of one call: matcher(value); infer_zip_from_narrative is
\* called with its default city.
MatcherCall(fn, v) ==
    CASE fn = "parse_recovery_location" ->
             [ raised |-> FALSE, result |-> parse_recovery_location(v) ]
      [] fn = "parse_court_state" ->
             [ raised |-> FALSE, result |-> parse_court_state(v) ]
      [] fn = "parse_trafficking_flow" ->
             [ raised |-> FALSE, result |-> parse_trafficking_flow(v) ]
      [] fn = "lookup_court" ->
             [ raised |-> FALSE, result |-> lookup_court(v) ]
      [] fn = "infer_zip_from_narrative" ->
             IF infer_zip_raises(v, "Wilmington")
             THEN [ raised |-> TRUE, result |-> NoMatch ]
             ELSE [ raised |-> FALSE, result |-> infer_zip_from_narrative(v, "Wilmington") ]

\* MatcherCall over the matchers and values above, computed once
MatcherOutcomes == [ fn \in Matchers |-> [ v \in MatcherInputs |-> MatcherCall(fn, v) ] ]

CallMatcher ==
    /\ \E fn \in Matchers, v \in MatcherInputs :
           ext' = [ called |-> TRUE, fn |-> fn, input |-> v,
                    raised |-> MatcherOutcomes[fn][v].raised,
                    result |-> MatcherOutcomes[fn][v].result ]
    /\ UNCHANGED << table, coordVars, calls, lastCall, jur, peer, load, seq >>

SpecMatchers == InitJur /\ [][CallMatcher]_vars

\* The scalar normalizers on their own, each called on one value.
Normalizers == { "convert_boolean", "normalize_case_number" }

BooleanTokens ==
    { "yes", "y", "true", "1", "x", "no", "n", "false", "0", "unclear", "maybe", "t" }

BooleanInputs ==
    UNION { { t, upper(t), " " \o t \o " ", "\t" \o upper(t) \o "\n" } : t \in BooleanTokens }
    \cup { "Yes", "True", "No", "False", "  Yes  ", "Unclear", "Maybe" }

CaseNumberInputs ==
    { "30-23-063056", "31-22-012345", "30-23-1234", "30-23-1", " 30-23-063056 ",
      "invalid", "30 - 23 - 12", "30-2 3-7\n", "30-23 -000001", "30-23-1234567",
      "3-23-1", "302-3-1", "30-23-", "30-23-12a", "30_23_1234", "  " }

NormalizerInputs == { None, "" } \cup NonStrings \cup BooleanInputs \cup CaseNumberInputs

NormalizerCall(fn, v) ==
    CASE fn = "convert_boolean" -> convert_boolean(v)
      [] fn = "normalize_case_number" -> normalize_case_number(v)

\* NormalizerCall over the normalizers and values above, computed once
NormalizerOutcomes ==
    [ fn \in Normalizers |-> [ v \in NormalizerInputs |-> NormalizerCall(fn, v) ] ]

CallNormalizer ==
    /\ \E fn \in Normalizers, v \in NormalizerInputs :
           ext' = [ called |-> TRUE, fn |-> fn, input |-> v, raised |-> FALSE,
                    result |-> NormalizerOutcomes[fn][v] ]
    /\ UNCHANGED << table, coordVars, calls, lastCall, jur, peer, load, seq >>

SpecNormalizers == InitJur /\ [][CallNormalizer]_vars

\* The loaders: process_gunstat main and process_crime_gun_db main, run at
\* most MaxLoads times.
MaxLoads == 3

\* What process_gunstat reads of a row of 'all identified dealers' that
\* reaches the table columns of the model: a row with a case and its
\* summary, a row without
NarratedCase == [ case_number |-> "30-23-063056", case_summary |-> "Shots fired on N. Pine St" ]
BlankCase == [ case_number |-> None, case_summary |-> None ]
GunstatCases == { NarratedCase, BlankCase }

\* DE_Gunstat_Final.xlsx: one row, two different rows, one row twice
GunstatWorkbooks ==
    { << NarratedCase >>, << BlankCase >>, << NarratedCase, BlankCase >>,
      << BlankCase, BlankCase >> }

\* process_gunstat's record for one row
GunstatRecord(case) ==
    NewRow([ source_dataset |-> "DE_GUNSTAT", jurisdiction_city |-> "Wilmington",
             case_number |-> case.case_number, case_summary |-> case.case_summary ])

\* process_gunstat main: a record per row, load_df_to_db
GunstatMain ==
    /\ load.runs < MaxLoads
    /\ ~txn /\ ~peer.txn
    /\ \E workbook \in GunstatWorkbooks :
          LET all_records == [k \in 1..Len(workbook) |-> GunstatRecord(workbook[k])]
              loaded == load_df_to_db(table, seq, all_records)
          IN  /\ table' = loaded.table
              /\ seq' = loaded.seq
              /\ load' = [ runs |-> load.runs + 1, by |-> "process_gunstat",
                           workbook |-> workbook, calls |-> calls,
                           repeat |-> /\ load.by = "process_gunstat"
                                      /\ load.workbook = workbook
                                      /\ load.calls = calls ]
    /\ UNCHANGED << coordVars, calls, lastCall, jur, ext, peer >>

skip_sheets == { "Sheet7", "Backdated" }

\* Rows of Crime_Gun_Dealer_DB.xlsx, each with the sheet it stands on: a
\* court-document row, a trace row, a garbage row and a row of a skipped sheet
CourtDocEntry ==
    << "CG court doc FFLs", SheetRow("Acme Guns", None, "US v. Smith (E.D. Pa. 2020)", None, None) >>
TraceEntry == << "Philadelphia Trace", SheetRow("Acme Guns", " tx ", None, None, None) >>
GarbageEntry == << "CG court doc FFLs", SheetRow(" ? ", None, None, None, None) >>
SkippedSheetEntry == << "Sheet7", SheetRow("Acme Guns", None, None, None, None) >>

\* Crime_Gun_Dealer_DB.xlsx: no row, one row, two different rows, one row
\* among rows that give no record, one row twice
CrimeGunWorkbooks ==
    { <<>>, << CourtDocEntry >>, << CourtDocEntry, TraceEntry >>,
      << GarbageEntry, CourtDocEntry, SkippedSheetEntry >>, << TraceEntry, TraceEntry >> }

\* main's loop body on one row: transform_row, unless the sheet is skipped
TransformedEntry(entry) ==
    IF entry[1] \in skip_sheets THEN SkippedRow ELSE Transformed[entry[2]][entry[1]]

\* `if record:`
Kept(record) == ~record.skipped

\* pd.DataFrame(all_records) as table rows
ResultRows(kept) == [ k \in 1..Len(kept) |-> CrimeGunRow(kept[k]) ]

\* main's loop over the sheets and their rows: all_records, as table rows
AllRecords(workbook) ==
    ResultRows(SelectSeq([ k \in 1..Len(workbook) |-> TransformedEntry(workbook[k]) ], Kept))

\* process_crime_gun_db main: transform, DELETE the CRIME_GUN_DB rows, append
\* the new ones (sqlite_sequence follows the last id given), commit
CrimeGunDbMain ==
    /\ load.runs < MaxLoads
    /\ ~txn /\ ~peer.txn
    /\ \E workbook \in CrimeGunWorkbooks :
          /\ table' = ToSqlAppend(DeleteCrimeGunDb(table), seq, AllRecords(workbook)).table
          /\ load' = [ runs |-> load.runs + 1, by |-> "process_crime_gun_db",
                       workbook |-> workbook, calls |-> calls,
                       repeat |-> /\ load.by = "process_crime_gun_db"
                                  /\ load.workbook = workbook
                                  /\ load.calls = calls ]
    /\ seq' = IF seq = NoSeq THEN NoSeq ELSE LastRowid(table', seq)
    /\ UNCHANGED << coordVars, calls, lastCall, jur, ext, peer >>

\* The store after init_db: the schema with its AUTOINCREMENT id, no row.
InitLoad ==
    /\ table = TableWith({}, {})
    /\ args = [batch_size |-> DefaultBatchSize, dry_run |-> FALSE, all |-> FALSE, stats |-> TRUE]
    /\ InitCoordinator
    /\ calls = 0
    /\ lastCall = NoCall
    /\ jur = NoJur
    /\ ext = NoExt
    /\ peer = NoPeer
    /\ load = NoLoad
    /\ seq = 0

\* The loaders and classifier agents over one store
SpecLoad == InitLoad /\ [][GunstatMain \/ CrimeGunDbMain \/ AgentNext]_vars

----------------------------------------------------------------------------
(* Properties                                                              *)

\* What each source of the priority chain yields on its own for the row
\* last resolved, in priority order: <<state, city, method>>, or <<>> where
\* the source has no value.
C1_Yields ==
    LET recovery == parse_recovery_location(RowGet(jur.row, recovery_col))
        court    == parse_court_state(RowGet(jur.row, case_col))
        flow     == parse_trafficking_flow(CaseSubject(jur.row))
        dealer   == RowGet(jur.row, "State")
    IN  << IF recovery # NoMatch
           THEN << recovery[2], recovery[1], "RECOVERY" >> ELSE <<>>,
           IF court # None THEN << court, None, "COURT" >> ELSE <<>>,
           IF flow # NoMatch /\ flow[2] # "SWB"
           THEN << flow[2], None, "TRAFFICKING" >> ELSE <<>>,
           IF Contains(jur.sheet_name, "Philadelphia")
           THEN << "PA", "Philadelphia", "SHEET_DEFAULT" >>
           ELSE IF Contains(jur.sheet_name, "Rochester")
           THEN << "NY", "Rochester", "SHEET_DEFAULT" >> ELSE <<>>,
           IF Truthy(dealer)
           THEN << upper(strip(dealer)), None, "DEALER_STATE" >> ELSE <<>> >>

C1_Yielding == {k \in 1..5 : C1_Yields[k] # <<>>}

\* C1: the state, city and method of a resolved record are those of the first
\* source, in the order recovery location, court reference, trafficking
\* destination, sheet default, dealer state, that yields a value; no source
\* after it changes them. With no yielding source the record is UNKNOWN.
C1_PriorityChainNonOverwrite ==
    (jur.resolved /\ ~jur.record.skipped) =>
        LET got == << jur.record.jurisdiction_state, jur.record.jurisdiction_city,
                      jur.record.jurisdiction_method >>
        IN  IF C1_Yielding = {} THEN got = << None, None, "UNKNOWN" >>
            ELSE \E k \in C1_Yielding :
                    /\ \A j \in C1_Yielding : k <= j
                    /\ got = C1_Yields[k]

\* A record resolved from its recovery location while every later source
\* yields a state too, each different from the recovery state.
C1_Witness ==
    /\ jur.resolved /\ ~jur.record.skipped
    /\ C1_Yielding = 1..5
    /\ \A k \in 2..5 : C1_Yields[k][1] # C1_Yields[1][1]
    /\ jur.record.jurisdiction_method = "RECOVERY"

\* The resolved record's <<state, city, method>>
JurGot ==
    << jur.record.jurisdiction_state, jur.record.jurisdiction_city,
       jur.record.jurisdiction_method >>

JurResolved == jur.resolved /\ ~jur.record.skipped

\* The first yielding source of the row last resolved (0: none yields)
FirstYielding ==
    IF C1_Yielding = {} THEN 0
    ELSE CHOOSE k \in C1_Yielding : \A j \in C1_Yielding : k <= j

\* The sources after the first yielding one that yield a city
CityDonors ==
    {j \in C1_Yielding : j > FirstYielding /\ C1_Yields[j][2] # None}

\* The first yielding source gives a state and no city, and a source of
\* lower priority yields a city.
C11_Case ==
    /\ JurResolved /\ FirstYielding # 0
    /\ C1_Yields[FirstYielding][2] = None
    /\ CityDonors # {}

C12_SheetDefaultHighest ==
    JurResolved =>
        /\ Contains(jur.sheet_name, "Philadelphia") => JurGot[1] = "PA"
        /\ Contains(jur.sheet_name, "Rochester") => JurGot[1] = "NY"

\* C12 (amended): the sheet default has the fourth priority. On a sheet whose
\* name holds Philadelphia (Rochester and not Philadelphia), a record whose
\* recovery location, court reference and trafficking flow yield no state
\* resolves to PA (NY), whatever the dealer state holds.
C12_SheetDefaultFourth ==
    (JurResolved /\ C1_Yielding \cap 1..3 = {}) =>
        /\ Contains(jur.sheet_name, "Philadelphia") =>
               JurGot = << "PA", "Philadelphia", "SHEET_DEFAULT" >>
        /\ (Contains(jur.sheet_name, "Rochester")
               /\ ~Contains(jur.sheet_name, "Philadelphia")) =>
               JurGot = << "NY", "Rochester", "SHEET_DEFAULT" >>

\* A Rochester row with a dealer state and nothing of higher priority.
C12_Witness ==
    /\ JurResolved /\ C1_Yielding = {4, 5}
    /\ Contains(jur.sheet_name, "Rochester")
    /\ JurGot[1] = "NY"
    /\ C1_Yields[5][1] # "NY"

\* C13: a resolved record has the method UNKNOWN exactly when no source
\* yields anything, and exactly when its state and its city are both null.
C13_UnknownIffNothingFound ==
    JurResolved =>
        /\ (JurGot[3] = "UNKNOWN") <=> (C1_Yielding = {})
        /\ (JurGot[3] = "UNKNOWN") <=> (JurGot[1] = None /\ JurGot[2] = None)

\* A row of a sheet with no default in which no source yields.
C13_Witness ==
    /\ JurResolved /\ C1_Yielding = {}
    /\ JurGot = << None, None, "UNKNOWN" >>

\* C16: the resolved state is null or exactly two letters.
C16_StateShape ==
    JurResolved =>
        \/ JurGot[1] = None
        \/ /\ Len(JurGot[1]) = 2
           /\ IsLetter(Ch(JurGot[1], 1)) /\ IsLetter(Ch(JurGot[1], 2))

\* The flow of the row last resolved
JurFlow == parse_trafficking_flow(CaseSubject(jur.row))

\* C18: with no recovery location and no court reference, a flow to a state
\* resolves to the destination (method TRAFFICKING), not to the origin; a flow
\* to SWB sets no state and the lower-priority sources decide. The
\* southwest-border flag is true exactly when there is a flow to SWB.
C18_FlowDestination ==
    JurResolved =>
        /\ (JurFlow # NoMatch /\ C1_Yielding \cap 1..2 = {}) =>
              IF JurFlow[2] # "SWB"
              THEN JurGot = << JurFlow[2], None, "TRAFFICKING" >>
              ELSE /\ JurGot[3] # "TRAFFICKING"
                   /\ JurGot = IF C1_Yielding = {} THEN << None, None, "UNKNOWN" >>
                               ELSE C1_Yields[FirstYielding]
        /\ jur.record.trafficking_destination =
              (IF JurFlow # NoMatch THEN JurFlow[2] ELSE None)
        /\ jur.record.is_southwest_border <=> (JurFlow # NoMatch /\ JurFlow[2] = "SWB")

\* A flow between two different states decides the record.
C18_Witness ==
    /\ JurResolved /\ JurFlow # NoMatch
    /\ JurFlow[1] # JurFlow[2]
    /\ JurGot = << JurFlow[2], None, "TRAFFICKING" >>
    /\ ~jur.record.is_southwest_border

\* The rows of the running batch whose city, case number and narrative are
\* all absent
EmptyRecords ==
    {r \in DOMAIN pending :
        /\ table[r].jurisdiction_city = None
        /\ table[r].case_number = None
        /\ table[r].case_summary = None}

\* C14: a record with no field present is classified with state null and city
\* null, and its reasoning is the no-indicators sentinel.
C14_EmptyRecordNoSignal ==
    \A r \in EmptyRecords :
        /\ pending[r].state = None
        /\ pending[r].city = None
        /\ pending[r].reasoning = "No location indicators found in record"

\* C15: a DE_GUNSTAT row is loaded at HIGH confidence and classified with
\* state DE, whatever its city, case number and narrative, and the reasoning
\* opens by naming the dataset as the source of the state.
C15_DelawareDatasetDefault ==
    \A r \in DOMAIN pending :
        table[r].source_dataset = "DE_GUNSTAT" =>
            /\ pending[r].state = "DE"
            /\ table[r].jurisdiction_confidence = "HIGH"
            /\ LitAt(pending[r].reasoning, 1, "State: DE_GUNSTAT dataset implies Delaware.")

\* A batch that classified two DE_GUNSTAT rows of different city, case number
\* and narrative.
C15_Witness ==
    \E r1, r2 \in DOMAIN pending :
        /\ table[r1].source_dataset = "DE_GUNSTAT"
        /\ table[r2].source_dataset = "DE_GUNSTAT"
        /\ table[r1].jurisdiction_city # table[r2].jurisdiction_city
        /\ table[r1].case_number # table[r2].case_number
        /\ table[r1].case_summary # table[r2].case_summary
        /\ pending[r1].state = "DE" /\ pending[r2].state = "DE"

\* A matcher's no-signal result; infer_zip_from_narrative's is the default
\* ZIP.
NoSignal(fn) ==
    CASE fn \in {"parse_recovery_location", "parse_trafficking_flow"} -> NoMatch
      [] fn \in {"parse_court_state", "lookup_court"} -> None
      [] fn = "infer_zip_from_narrative" ->
             << DEFAULT_WILMINGTON_ZIP, "Default (no narrative or non-Wilmington)" >>

\* C17: a matcher given None, the empty string or a value that is not a
\* string does not raise and returns its no-signal result.
C17_InputTolerance ==
    (ext.called /\ ext.input \in {None, ""} \cup NonStrings) =>
        /\ ~ext.raised
        /\ ext.result = NoSignal(ext.fn)

\* The entries of COURT_STATE_MAP whose abbreviation occurs in the text of
\* the last call
CourtHits ==
    {k \in 1..Len(COURT_STATE_MAP) : Contains(ext.input, COURT_STATE_MAP[k][1])}

\* C19: parse_court_state returns the state of the first entry, in declared
\* order, whose abbreviation occurs in the text (None with no such entry),
\* and a text that holds W.Va. resolves to WV, never to the VA of the
\* shorter Va.
C19_CourtMatcherOrder ==
    (ext.called /\ ext.fn = "parse_court_state" /\ IsStr(ext.input) /\ ext.input # "") =>
        /\ ext.result =
              (IF CourtHits = {} THEN None
               ELSE COURT_STATE_MAP[CHOOSE k \in CourtHits : \A j \in CourtHits : k <= j][2])
        /\ Contains(ext.input, "W.Va.") => ext.result = "WV"

\* The upper-cased text of a call on v
FlowTextOf(v) == upper(PyStr(v))

\* The upper-cased text of the last call
FlowText == FlowTextOf(ext.input)

FlowArrows == {"-->", "->", "==>", "=>"}

\* The flows an upper-cased text holds: <<i, destination>> where two letters
\* stand at i, then optional whitespace, an arrow, optional whitespace, and
\* SWB or two letters.
FlowsIn(text) ==
    {m \in (1..Len(text)) \X ({"SWB"} \cup {SubSeq(text, d, d + 1) : d \in 1..(Len(text) - 1)}) :
        /\ TwoUpperAt(text, m[1])
        /\ \E a \in (m[1] + 2)..Len(text), arrow \in FlowArrows :
              /\ \A j \in (m[1] + 2)..(a - 1) : IsSpace(Ch(text, j))
              /\ LitAt(text, a, arrow)
              /\ \E d \in (a + Len(arrow))..Len(text) :
                    /\ \A j \in (a + Len(arrow))..(d - 1) : IsSpace(Ch(text, j))
                    /\ ~IsSpace(Ch(text, d))
                    /\ \/ m[2] = "SWB" /\ LitAt(text, d, "SWB")
                       \/ /\ ~LitAt(text, d, "SWB")
                          /\ TwoUpperAt(text, d)
                          /\ m[2] = SubSeq(text, d, d + 1)}

\* FlowsIn over the values the matchers are called on, computed once
FlowsInInputs == [ v \in MatcherInputs |-> FlowsIn(FlowTextOf(v)) ]

\* The flows the upper-cased text of the last call holds
FlowsInText == FlowsInInputs[ext.input]

ItemSeparators == {";", "\n"}

\* The text of the last call and the indexes where its items start
RecoveryText == PyStr(ext.input)

ItemStarts ==
    {1} \cup {i + 1 : i \in {j \in 1..Len(RecoveryText) : Ch(RecoveryText, j) \in ItemSeparators}}

\* The item that starts at s: the text up to the next separator
ItemAt(s) ==
    LET ends == {j \in s..Len(RecoveryText) : Ch(RecoveryText, j) \in ItemSeparators}
        e == IF ends = {} THEN Len(RecoveryText)
             ELSE (CHOOSE j \in ends : \A k \in ends : j <= k) - 1
    IN  IF s > e THEN "" ELSE SubSeq(RecoveryText, s, e)

\* The City, ST pair of one item: an optional list numeral, the city, a
\* comma, the two-letter state and nothing more than a parenthetical aside;
\* NoMatch for an item of another shape.
ItemPair(item) ==
    LET t == strip(item)
        d == SkipDigits(t, 1)
        p == IF d > 1 /\ d <= Len(t) /\ Ch(t, d) = "." THEN SkipSpaces(t, d + 1) ELSE 1
        q == SkipCityChs(t, p)
        r == SkipSpaces(t, q + 1)
        rest == IF r + 2 > Len(t) THEN "" ELSE strip(SubSeq(t, r + 2, Len(t)))
    IN  IF /\ p <= Len(t) /\ IsLetter(Ch(t, p))
           /\ q > p /\ q <= Len(t) /\ Ch(t, q) = ","
           /\ TwoUpperAt(t, r)
           /\ rest = "" \/ Ch(rest, 1) = "("
        THEN << strip(SubSeq(t, p, q - 1)), SubSeq(t, r, r + 1) >>
        ELSE NoMatch

PairStarts == {s \in ItemStarts : ItemPair(ItemAt(s)) # NoMatch}

\* C21: for a recovery-location text that holds one or more City, ST pairs
\* (numbered, on separate lines or separated by semicolons, with optional
\* parenthetical asides), parse_recovery_location returns the first pair in
\* document order, the list numeral stripped from the city.
C21_RecoveryFirstPair ==
    (/\ ext.called /\ ext.fn = "parse_recovery_location"
     /\ Truthy(ext.input) /\ PairStarts # {}) =>
        ext.result = ItemPair(ItemAt(CHOOSE s \in PairStarts : \A k \in PairStarts : s <= k))

\* The ZIP codes of the Wilmington gazetteer
WilmingtonZips ==
    {WILMINGTON_STREET_TO_ZIP("")[k].zip : k \in 1..Len(WILMINGTON_STREET_TO_ZIP(""))}

\* The ZIP of the first gazetteer rule that matches a narrative, the default
\* ZIP with no narrative or no match
ExpectedWilmingtonZip(narrative) ==
    IF ~Truthy(narrative) THEN DEFAULT_WILMINGTON_ZIP
    ELSE LET m == FirstZipRule(lower(narrative), WILMINGTON_STREET_TO_ZIP(lower(narrative)))
         IN  IF m # NoMatch THEN m[1] ELSE DEFAULT_WILMINGTON_ZIP

\* C22: a classification of city Wilmington carries the ZIP of the first
\* matching street or pattern, the default ZIP with no match or no narrative;
\* a classification of any other city carries no Wilmington ZIP.
C22_ZipApplicability ==
    \A r \in DOMAIN pending :
        IF pending[r].city = "Wilmington"
        THEN pending[r].zip_code = ExpectedWilmingtonZip(table[r].case_summary)
        ELSE pending[r].zip_code \notin WilmingtonZips

\* The token of the last call: its value as text, trimmed, in lower case
BooleanToken == lower(strip(PyStr(ext.input)))

\* C23: convert_boolean, after trimming whitespace and ignoring case, maps
\* yes, y, true, 1 and x to true, no, n, false and 0 to false, and every
\* other value, the empty string and null included, to None.
C23_BooleanVocabulary ==
    (ext.called /\ ext.fn = "convert_boolean") =>
        ext.result =
            (IF ext.input = None THEN None
             ELSE IF BooleanToken \in {"yes", "y", "true", "1", "x"} THEN PyTrue
             ELSE IF BooleanToken \in {"no", "n", "false", "0"} THEN PyFalse
             ELSE None)

\* The text of the last call with its whitespace removed
CaseNumberText == RemoveWhitespace(PyStr(ext.input))

\* Two digits, dash, two digits, dash, digits
CaseNumberShape(t) ==
    \E n \in 1..Len(t) :
        /\ Len(t) = 6 + n
        /\ \A i \in {1, 2, 4, 5} \cup (7..Len(t)) : IsDigit(Ch(t, i))
        /\ Ch(t, 3) = "-" /\ Ch(t, 6) = "-"

\* C24: normalize_case_number returns, for a text that without its whitespace
\* is two digits, dash, two digits, dash, digits, the same prefix and year
\* with the sequence left-padded with zeros to six digits, and None for every
\* other value; applied to a result that is not None it returns that result.
C24_CaseNumberNormalForm ==
    (ext.called /\ ext.fn = "normalize_case_number") =>
        /\ IF IsStr(ext.input) /\ CaseNumberShape(CaseNumberText)
           THEN \E zeros \in {"", "0", "00", "000", "0000", "00000"} :
                   /\ ext.result = SubSeq(CaseNumberText, 1, 6) \o zeros
                                       \o SubSeq(CaseNumberText, 7, Len(CaseNumberText))
                   /\ Len(ext.result) >= 6 + SequenceWidth
                   /\ zeros # "" => Len(ext.result) = 6 + SequenceWidth
           ELSE ext.result = None
        /\ ext.result # None => normalize_case_number(ext.result) = ext.result

\* A short sequence number padded, from a text with whitespace inside it.
C24_Witness ==
    /\ ext.called /\ ext.fn = "normalize_case_number"
    /\ ext.input = "30 - 23 - 12"
    /\ ext.result = "30-23-000012"

\* The source dataset of a sheet as TestGetSourceDataset states it
get_source_dataset(sheet_name) ==
    CASE sheet_name \in {"Philadelphia Trace", "Rochester Trace"} -> "PA_TRACE"
      [] sheet_name = "CG court doc FFLs" -> "CG_COURT_DOC"
      [] OTHER -> "UNKNOWN_CRIME_GUN_DB"

\* C25: a record produced from a sheet gets the source dataset of the sheet
\* name: PA_TRACE for Philadelphia Trace and Rochester Trace, CG_COURT_DOC
\* for CG court doc FFLs, UNKNOWN_CRIME_GUN_DB for any other sheet.
C25_SourceDatasetBySheet ==
    (jur.resolved /\ ~jur.record.skipped) =>
        jur.record.source_dataset = get_source_dataset(jur.sheet_name)

\* The ids of the records of the current batch
BatchIds == {records[k].rowid : k \in 1..Len(records)}

\* process_batch returns to main after its loop, committed, with no write of
\* another connection so far and a batch size of at least one
BatchReturns ==
    /\ pc = "loop" /\ pc' \in {"call", "done"}
    /\ ~args.dry_run /\ args.batch_size >= 1
    /\ calls' = 0

\* C26: with no other writer and batch_size >= 1, a committing process_batch
\* on U unclassified rows returns n = min(batch_size, U), after it exactly
\* those n rows have left the unclassified ones, so U has decreased by n; and
\* a process-all run that ends reports as its total the number of rows that
\* were unclassified when it started.
C26_BatchProgress ==
    /\ [][BatchReturns =>
            /\ processed = (IF args.batch_size < Cardinality(nullAtFetch)
                            THEN args.batch_size ELSE Cardinality(nullAtFetch))
            /\ Cardinality(BatchIds) = processed
            /\ BatchIds \subseteq nullAtFetch
            /\ Unclassified(table') = nullAtFetch \ BatchIds
            /\ Cardinality(Unclassified(table')) = Cardinality(nullAtFetch) - processed]_vars
    /\ []((/\ pc = "done" /\ args.all /\ ~args.stats
           /\ ~args.dry_run /\ args.batch_size >= 1 /\ calls = 0) =>
             total_processed = startUnclassified)

\* A process-all run of two batches, of two rows and of one, that ended with
\* a total of three.
C26_Witness ==
    /\ pc = "done" /\ args.all /\ ~args.dry_run /\ calls = 0
    /\ args.batch_size = 2
    /\ commits = 2
    /\ startUnclassified = 3
    /\ total_processed = 3
    /\ Unclassified(table) = {}

\* The six crime_location_* columns of an unclassified row
NoLocation == << None, None, None, None, None, None >>

\* The six crime_location_* columns of a row
LocationOf(row) ==
    << row.crime_location_state, row.crime_location_city, row.crime_location_zip,
       row.crime_location_court, row.crime_location_pd, row.crime_location_reasoning >>

\* The six values one sequential run writes to row r: classify_record on the
\* row's own columns
SequentialValues(r) ==
    LET v == Classify(table[r])
    IN  << v.state, v.city, v.zip_code, v.court, v.pd, v.reasoning >>

\* The rows main has fetched to write when it has ended
MainFetched ==
    IF args.dry_run \/ args.batch_size = 0 THEN {}
    ELSE IF args.all THEN DOMAIN table
    ELSE BatchIds

\* C27: two coordinators over one store, in every interleaving of their
\* fetches, updates and commits: a row holds no location or exactly the
\* values one sequential run writes to it, never a mixture, whoever wrote it
\* and however often; and when both have ended, every row either of them
\* fetched holds those values.
C27_ConcurrentCoordinators ==
    /\ \A r \in DOMAIN table :
          \/ LocationOf(table[r]) = NoLocation
          \/ LocationOf(table[r]) = SequentialValues(r)
    /\ (pc = "done" /\ peer.pc = "done") =>
          \A r \in MainFetched \cup peer.fetched : LocationOf(table[r]) = SequentialValues(r)

\* Both coordinators fetched row 1 before either wrote it, and both committed.
C27_Witness ==
    /\ pc = "done" /\ peer.pc = "done"
    /\ ~args.dry_run /\ ~args.all
    /\ commits = 1
    /\ 1 \in BatchIds \cap peer.fetched
    /\ 1 \in nullAtFetch
    /\ BatchIds # peer.fetched
    /\ \A r \in BatchIds \cup peer.fetched : LocationOf(table[r]) = SequentialValues(r)

\* A row without its six crime_location_* columns
OtherColumns(row) ==
    [ row EXCEPT !.crime_location_state     = None,
                 !.crime_location_city      = None,
                 !.crime_location_zip       = None,
                 !.crime_location_court     = None,
                 !.crime_location_pd        = None,
                 !.crime_location_reasoning = None ]

\* The rows a step's UPDATEs name: those of the transaction a commit ends,
\* the record_id of a call of update_crime_location
UpdatedIds ==
    (IF commits' # commits THEN DOMAIN pending ELSE {})
    \cup (IF calls' # calls THEN {lastCall'.record_id} ELSE {})

\* C28: persisting a classification, by the UPDATE of process_batch or by
\* update_crime_location, changes the six crime_location_* columns of the row
\* with the given id and nothing else: no row comes or goes, every other
\* column of that row and every other row stay as they were, and
\* classify_record on a stored row gives what it gave before.
C28_UpdateFrame ==
    [][/\ DOMAIN table' = DOMAIN table
       /\ \A r \in DOMAIN table :
             /\ OtherColumns(table'[r]) = OtherColumns(table[r])
             /\ table'[r] # table[r] =>
                   /\ r \in UpdatedIds
                   /\ Classify(table'[r]) = Classify(table[r])]_vars

\* An agent stored Philadelphia for the Wilmington row and a batch of the
\* coordinator committed the Dover row.
C28_Witness ==
    /\ calls = 1 /\ lastCall.ret /\ lastCall.record_id = 1
    /\ commits >= 1
    /\ table[1].jurisdiction_city = "Wilmington"
    /\ table[1].crime_location_city = "Philadelphia"
    /\ table[3].crime_location_city = "Dover"
    /\ table[3].case_summary = "Traffic stop downtown"

\* A step is a run of process_gunstat main
GunstatRuns == load'.runs # load.runs /\ load'.by = "process_gunstat"

\* C29: after process_gunstat main has run, the table holds exactly the
\* DE_GUNSTAT rows of that run, one per row of its workbook, each with every
\* crime_location_* column null: no row of another dataset and no
\* classification persisted before the run is left.
C29_GunstatReloadReplaces ==
    [][GunstatRuns =>
          /\ Cardinality(DOMAIN table') = Len(load'.workbook)
          /\ \A r \in DOMAIN table' :
                /\ table'[r].source_dataset = "DE_GUNSTAT"
                /\ LocationOf(table'[r]) = NoLocation
          /\ \A c \in GunstatCases :
                Cardinality({r \in DOMAIN table' :
                                /\ table'[r].case_number = c.case_number
                                /\ table'[r].case_summary = c.case_summary})
                    = Cardinality({k \in 1..Len(load'.workbook) : load'.workbook[k] = c})]_vars

\* A run of process_gunstat on two rows, after an agent had classified a
\* dealer-database row: the table holds two unclassified DE_GUNSTAT rows.
C29_Witness ==
    /\ load.by = "process_gunstat" /\ Len(load.workbook) = 2
    /\ calls = 1 /\ load.calls = 1 /\ lastCall.ret
    /\ lastCall.row.source_dataset = "CRIME_GUN_DB"
    /\ lastCall.row.crime_location_state # None
    /\ Cardinality(DOMAIN table) = 2
    /\ \A r \in DOMAIN table :
          table[r].source_dataset = "DE_GUNSTAT" /\ LocationOf(table[r]) = NoLocation

\* A step is a run of process_crime_gun_db main
CrimeGunRuns == load'.runs # load.runs /\ load'.by = "process_crime_gun_db"

CrimeGunIds(tbl) == {r \in DOMAIN tbl : tbl[r].source_dataset = "CRIME_GUN_DB"}

\* The rows of a workbook that become records: on a sheet that is not
\* skipped, with a dealer name
TransformedRows(workbook) ==
    {k \in 1..Len(workbook) :
        /\ workbook[k][1] \notin skip_sheets
        /\ RowGet(workbook[k][2], "FFL") # None
        /\ strip(RowGet(workbook[k][2], "FFL")) \notin {"?", ""}}

\* Two tables hold the same rows, each as often. The rowid is no part of a
\* row: under the AUTOINCREMENT schema a reload gives its rows fresh ids.
SameContents(t1, t2) ==
    \A row \in {t1[r] : r \in DOMAIN t1} \cup {t2[r] : r \in DOMAIN t2} :
        Cardinality({r \in DOMAIN t1 : t1[r] = row}) = Cardinality({r \in DOMAIN t2 : t2[r] = row})

\* C30: a run of process_crime_gun_db main leaves every row of another
\* dataset as it was, under its rowid, and leaves as CRIME_GUN_DB rows one
\* new, unclassified row per transformed row of the workbook; a run that
\* repeats the run before it on the same workbook leaves the contents of the
\* table as they were.
C30_CrimeGunReloadOwnRows ==
    /\ [][CrimeGunRuns =>
            /\ DOMAIN table' \ CrimeGunIds(table') = DOMAIN table \ CrimeGunIds(table)
            /\ \A r \in DOMAIN table \ CrimeGunIds(table) : table'[r] = table[r]
            /\ Cardinality(CrimeGunIds(table')) = Cardinality(TransformedRows(load'.workbook))
            /\ \A r \in CrimeGunIds(table') : LocationOf(table'[r]) = NoLocation]_vars
    /\ [][(CrimeGunRuns /\ load'.repeat) => SameContents(table', table)]_vars

\* A second run on a workbook of two transformed rows, in a table that also
\* holds a DE_GUNSTAT row: two CRIME_GUN_DB rows, not four.
C30_Witness ==
    /\ load.by = "process_crime_gun_db" /\ load.repeat
    /\ Cardinality(TransformedRows(load.workbook)) = 2
    /\ Cardinality(CrimeGunIds(table)) = 2
    /\ DOMAIN table \ CrimeGunIds(table) # {}

Terminated == pc \in {"done", "crashed"}

\* C2: the process-all loop terminates on every finite store and for every
\* combination of flags, --dry-run included: main started with --all
\* eventually ends.
C2_ProcessAllTerminates == args.all => <>Terminated

\* C3: a record of a batch whose UPDATE fails does not abort the batch: when
\* the batch is over, every other record it fetched is persisted.
C3_FailureIsolated ==
    (Terminated /\ failed # 0) =>
        \A i \in 1..Len(records) :
            records[i].rowid # failed =>
                table[records[i].rowid].crime_location_state # None

\* C4: update_crime_location called again with the id and the values of the
\* previous call, which returned true, returns true and leaves the stored row
\* as the previous call left it; no row is added.
C4_PersistIdempotent ==
    [][ (calls' = calls + 1 /\ lastCall'.repeat) =>
            /\ lastCall'.ret
            /\ lastCall'.row = lastCall.row
            /\ DOMAIN table' = DOMAIN table ]_vars

C4_Witness == calls = 2 /\ lastCall.repeat /\ lastCall.ret

\* C5: update_crime_location returns true exactly when a row with the given
\* id exists; on a missing id it returns false and changes no row.
C5_PersistMissingId ==
    [][ calls' = calls + 1 =>
            /\ lastCall'.ret <=> (lastCall'.record_id \in DOMAIN table)
            /\ lastCall'.record_id \notin DOMAIN table => table' = table ]_vars

C5_Witness == calls > 0 /\ lastCall.record_id \notin DOMAIN table /\ ~lastCall.ret

\* C7: on a store with no unclassified record the process-all loop ends after
\* its first batch, having executed no UPDATE and no commit.
C7_EmptyStoreNoWrite ==
    (args.all /\ pc # "start" /\ startUnclassified = 0) =>
        /\ pc \in {"call", "done"}
        /\ batch_num = 1
        /\ total_processed = 0
        /\ updates = 0
        /\ commits = 0
        /\ ~txn

C7_Witness ==
    args.all /\ ~args.dry_run /\ args.batch_size > 0 /\ pc = "done"
    /\ startUnclassified = 0 /\ batch_num = 1

\* C8: a requested batch size above 20 is clamped to 20: no batch fetches or
\* processes more than 20 records.
C8_BatchClamped ==
    args.batch_size > HardCap => Len(records) <= HardCap /\ processed <= HardCap

\* C9: for batch_size >= 1 a batch fetches at most batch_size rows, all with
\* a NULL crime_location_state at fetch time, and executes UPDATEs for fetched
\* rows only: a row that had a state at fetch time is not written.
C9_FetchUnclassifiedOnly ==
    /\ \A i \in 1..Len(records) : records[i].rowid \in nullAtFetch
    /\ args.batch_size >= 1 => Len(records) <= args.batch_size
    /\ written \subseteq nullAtFetch
    /\ DOMAIN pending \subseteq nullAtFetch

C9_Witness ==
    /\ pc = "loop"
    /\ written # {}
    /\ args.batch_size >= 1
    /\ Len(records) = args.batch_size
    /\ Cardinality(nullAtFetch) > args.batch_size
    /\ DOMAIN table \ nullAtFetch # {}

\* C10: with --dry-run no step of main or process_batch changes a row of the
\* table, and process_batch returns the number of records it fetched.
C10_DryRunWritesNothing ==
    [][ (args.dry_run /\ coordVars' # coordVars) =>
            /\ table' = table
            /\ (pc = "loop" /\ pc' # "loop") => processed' = Len(records) ]_vars

C10_Witness ==
    args.dry_run /\ pc = "done" /\ processed > 0 /\ processed = Len(records)
    /\ Cardinality(Unclassified(table)) >= processed

====
